---- MODULE Spec2Model ----
(***************************************************************************)
(* experiments/train_bnn.py: one run of main(), the orchestration of a     *)
(* posterior-sampling experiment.  The state is main's local variables,    *)
(* the model, the two scoped sinks and the runner; each action is one      *)
(* statement group of main.  Results of calls into collaborators           *)
(* (exp_utils, bnn_priors.inference, torch, pyro) are drawn with \E in the *)
(* action that makes the call.                                             *)
(***************************************************************************)
EXTENDS Integers, Sequences, FiniteSets, TLC

\* ------------------------------------------------------------------ bounds
MaxSamples == 2
MaxCycles  == 2
MaxSkip    == 2
MaxWarmup  == 1
MaxBurnin  == 1
MaxBatch   == 2
MaxData    == 2
MaxKeys    == 2
MaxWrites  == 2

\* ------------------------------------------------------------ basic values
\* Python's None and a present value: a variable that may hold None is a
\* sequence of at most one element
None == <<>>

Some(v) == <<v>>

Val(o) == o[1]

Min(a, b) == IF a <= b THEN a ELSE b

Range(s) == {s[i] : i \in 1..Len(s)}

\* the six inference modes accepted by the first assertion of main
InferenceModes ==
    {"SGLD", "HMC", "VerletSGLD", "OurHMC", "HMCReject", "VerletSGLDReject"}

\* the initialization schemes main dispatches on
InitMethods == {"he", "he_uniform", "he_zerobias", "prior"}

\* data[:9] == "synthetic"
IsSynthetic(d) == d \in {"synthetic.UCI_boston.gaussian"}

\* ------------------------------------------------------------ configuration
\* config(): the defaults, with the iteration counts scaled into the bounds
Default ==
    [ data         |-> "UCI_boston",
      inference    |-> "SGLD",
      width        |-> 1,
      n_samples    |-> 1,
      warmup       |-> 0,
      burnin       |-> 0,
      skip         |-> 1,
      cycles       |-> 1,
      temperature  |-> 1,
      init_method  |-> "he",
      load_samples |-> None,
      batch_size   |-> None,
      save_samples |-> TRUE ]

\* configurations that vary the inference mode and the numeric parameters
ScheduleConfigs ==
    { [Default EXCEPT !.inference = i, !.width = w, !.n_samples = n,
                      !.cycles = c, !.temperature = tp, !.skip = s,
                      !.warmup = wu, !.burnin = bi] :
        i \in InferenceModes \cup {"MAP"}, w \in {0, 1},
        n \in 0..MaxSamples, c \in 0..MaxCycles, tp \in {-1, 0, 1},
        s \in 1..MaxSkip, wu \in 0..MaxWarmup, bi \in 0..MaxBurnin }

\* configurations that vary how the model gets its initial parameters
ModelConfigs ==
    { [Default EXCEPT !.init_method = im, !.load_samples = ls] :
        im \in InitMethods \cup {"glorot"}, ls \in {None, Some("samples.pt")} }

\* configurations that vary the data set, the sinks and the batch size
SinkConfigs ==
    { [Default EXCEPT !.inference = i, !.data = d, !.save_samples = sv,
                      !.batch_size = b, !.cycles = c] :
        i \in InferenceModes, d \in {"UCI_boston", "synthetic.UCI_boston.gaussian"},
        sv \in BOOLEAN, b \in {None} \cup {Some(x) : x \in 1..MaxBatch},
        c \in 1..MaxCycles }

\* the arguments sacred injects into main
Configs == ScheduleConfigs \cup ModelConfigs \cup SinkConfigs

\* --------------------------------------------------------- parameter stores
\* A tensor is its size() and where its entries come from; a mapping is the
\* insertion order of its keys and the value under each key.
Keys  == 1..MaxKeys

Sizes == {"torch.Size([1])", "torch.Size([2])"}

Tensor(sz, o) == [size |-> sz, origin |-> o]

IsInjective(s) == \A i, j \in 1..Len(s) : s[i] = s[j] => i = j

KeyOrders == {s \in UNION {[1..n -> Keys] : n \in 0..MaxKeys} : IsInjective(s)}

IsSorted(s) == \A i, j \in 1..Len(s) : i < j => s[i] < s[j]

\* mappings whose tensors all have origin o
StoresOf(o, orders) ==
    UNION { { [keys |-> ks, val |-> [k \in Range(ks) |-> Tensor(f[k], o)]] :
                f \in [Range(ks) -> Sizes] } : ks \in orders }

\* model.state_dict(): parameter names in the model's own (fixed) order
ModelStores == StoresOf("model", {s \in KeyOrders : IsSorted(s)})

\* exp_utils.load_samples(...): any key order
LoadedStores == StoresOf("ckpt", KeyOrders)

Has(d, k) == k \in Range(d.keys)

KeySet(d) == Range(d.keys)

\* del d[k]
DictDel(d, k) ==
    [keys |-> SelectSeq(d.keys, LAMBDA x : x # k),
     val  |-> [x \in Range(d.keys) \ {k} |-> d.val[x]]]

\* d[k] = v
DictSet(d, k, v) ==
    [keys |-> IF Has(d, k) THEN d.keys ELSE Append(d.keys, k),
     val  |-> [x \in Range(d.keys) \cup {k} |-> IF x = k THEN v ELSE d.val[x]]]

\* a merge in which the entries already in d win
DictUpdateKeepOld(d, e) ==
    [keys |-> d.keys \o SelectSeq(e.keys, LAMBDA x : ~Has(d, x)),
     val  |-> [x \in Range(d.keys) \cup Range(e.keys) |->
                 IF Has(d, x) THEN d.val[x] ELSE e.val[x]]]

\* d.update(e)
DictUpdate(d, e) ==
    [keys |-> d.keys \o SelectSeq(e.keys, LAMBDA x : ~Has(d, x)),
     val  |-> [x \in Range(d.keys) \cup Range(e.keys) |->
                 IF Has(e, x) THEN e.val[x] ELSE d.val[x]]]

\* ---------------------------------------------------- checkpoint reconciler
\* the three warnings; a warning carries the key, sizes or key set it names
NotInModel(k) ==
    [warning |-> "not in model, ignoring", key |-> Some(k),
     model |-> None, loaded |-> None, keys |-> {}]

SizeMismatch(k, m, l) ==
    [warning |-> "size mismatch", key |-> Some(k),
     model |-> Some(m), loaded |-> Some(l), keys |-> {}]

NotFound(ks) ==
    [warning |-> "not found in loaded state dict", key |-> None,
     model |-> None, loaded |-> None, keys |-> ks]

\* next() of the key iterator of a mapping that had n keys when the loop
\* began, now has m, with i keys already yielded.  A dict checks its size
\* before anything else; an OrderedDict first checks whether it is exhausted.
IteratorRaises(knd, n, m, i) ==
    IF knd = "dict" THEN m # n ELSE (i < n /\ m # n)

\* the body of `for k in state_dict.keys()`, from the i-th key on.  keys0 is
\* the key order when the loop began (the loop never inserts a key).
RECURSIVE ForKeys(_, _, _, _, _, _)
ForKeys(knd, sd, msd, keys0, i, lg) ==
    IF IteratorRaises(knd, Len(keys0), Len(sd.keys), i - 1)
    THEN [state_dict |-> sd, log |-> lg, raised |-> TRUE]
    ELSE IF i > Len(keys0)
    THEN [state_dict |-> sd, log |-> lg, raised |-> FALSE]
    ELSE LET k == keys0[i] IN
         IF ~Has(msd, k)
         THEN ForKeys(knd, DictDel(sd, k), msd, keys0, i + 1,
                      Append(lg, NotInModel(k)))
         ELSE IF msd.val[k].size # sd.val[k].size
         THEN ForKeys(knd, DictSet(sd, k, msd.val[k]), msd, keys0, i + 1,
                      Append(lg, SizeMismatch(k, msd.val[k].size, sd.val[k].size)))
         ELSE ForKeys(knd, sd, msd, keys0, i + 1, lg)

\* the difference forgotten: every key of the model is reported
MissingKeysAll(msd, sd) == KeySet(msd)

\* the difference taken the wrong way round
MissingKeysReversed(msd, sd) == KeySet(sd) \ KeySet(msd)

\* set(model_sd.keys()) - set(state_dict.keys())
MissingKeys(msd, sd) == KeySet(msd) \ KeySet(sd)

\* torch's load_state_dict (strict): the keys and sizes must be the model's
Loadable(store, sd) ==
    /\ KeySet(sd) = KeySet(store)
    /\ \A k \in KeySet(sd) : sd.val[k].size = store.val[k].size

\* ------------------------------------------------------- schedule calculator
\* the divisibility assertion left out
DivisibleUnchecked(n, s, c) == TRUE

\* assert (n_samples * skip) % cycles == 0
Divisible(n, s, c) == (n * s) % c = 0

\* the division done before the multiplication
SampleEpochsTruncated(n, s, c) == (n \div c) * s

\* n_samples * skip // cycles
SampleEpochs(n, s, c) == (n * s) \div c

EpochsPerCycle(wu, bi, se) == wu + bi + se

\* ------------------------------------------------------------------- sinks
Unopened == [state |-> "unopened", opens |-> 0, closes |-> 0, writes |-> 0]

\* __enter__ of a sink
Open(s) == [s EXCEPT !.state = "open", !.opens = @ + 1]

\* __exit__ of a sink
Close(s) == [s EXCEPT !.state = "closed", !.closes = @ + 1]

\* a record written by the runner
WriteTo(s) == IF s.state = "open" THEN [s EXCEPT !.writes = @ + 1] ELSE s

\* the value of `yield None`
Placeholder == [state |-> "placeholder", opens |-> 0, closes |-> 0, writes |-> 0]

\* runner_class for the modes other than "HMC"
RunnerClass(inf) ==
    CASE inf = "SGLD"             -> "SGLDRunner"
      [] inf = "VerletSGLD"       -> "VerletSGLDRunner"
      [] inf = "OurHMC"           -> "HMCRunner"
      [] inf = "VerletSGLDReject" -> "VerletSGLDRunnerReject"
      [] inf = "HMCReject"        -> "HMCRunnerReject"

\* num_steps of the pyro HMC kernel
NumSteps == 32

\* the first of the five opening assertions that fails, or 0
FailedAssertion(c) ==
    IF c.inference \notin InferenceModes THEN 117
    ELSE IF ~(c.width > 0) THEN 118
    ELSE IF ~(c.n_samples > 0) THEN 119
    ELSE IF ~(c.cycles > 0) THEN 120
    ELSE IF ~(c.temperature >= 0) THEN 121
    ELSE 0

\* ------------------------------------------------------------------- state
VARIABLES
    cfg,              \* the arguments of main (never assigned)
    pc,               \* the statement main is at
    err, errLine,     \* the exception in flight or propagated, and its line
    batch_size,       \* the local batch_size (reassigned at 196 and 211)
    dataset,          \* "none" | "obtained"
    artifacts,        \* files persisted through sneaky_artifact
    model,            \* "none" | "train" | "eval"
    inits,            \* initialization schemes applied to the model
    model_store,      \* the model's parameters, once read or installed
    state_dict, kind, \* the loaded mapping and its Python type
    model_sd,         \* the mapping returned by model.state_dict()
    ckpt, fresh,      \* state_dict and model_sd as first obtained
    log,              \* warnings given to _log
    missing_keys,
    metrics_saver, model_saver,
    runner_class, sample_epochs, epochs_per_cycle,
    dataloader, dataloader_test, train_len, test_len,
    mcmc,             \* the runner (or pyro MCMC object) as constructed
    run,              \* what has been done with the runner
    samples, result

cfgvars   == <<cfg>>
errvars   == <<err, errLine>>
datavars  == <<dataset, artifacts>>
modelvars == <<model, inits, model_store>>
ckptvars  == <<state_dict, kind, model_sd, ckpt, fresh, log, missing_keys>>
sinkvars  == <<metrics_saver, model_saver>>
schedvars == <<runner_class, sample_epochs, epochs_per_cycle>>
loadvars  == <<dataloader, dataloader_test, train_len, test_len>>
runvars   == <<mcmc, run, samples, result>>

vars == <<cfg, pc, err, errLine, batch_size, dataset, artifacts, model, inits,
          model_store, state_dict, kind, model_sd, ckpt, fresh, log,
          missing_keys, metrics_saver, model_saver, runner_class,
          sample_epochs, epochs_per_cycle, dataloader, dataloader_test,
          train_len, test_len, mcmc, run, samples, result>>

Init ==
    /\ cfg \in Configs
    /\ pc = "validate"
    /\ err = "none" /\ errLine = 0
    /\ batch_size = cfg.batch_size
    /\ dataset = "none" /\ artifacts = {}
    /\ model = "none" /\ inits = <<>> /\ model_store = None
    /\ state_dict = None /\ kind = "none" /\ model_sd = None
    /\ ckpt = None /\ fresh = None /\ log = <<>> /\ missing_keys = None
    /\ metrics_saver = Unopened /\ model_saver = Unopened
    /\ runner_class = "none" /\ sample_epochs = None /\ epochs_per_cycle = None
    /\ dataloader = None /\ dataloader_test = None
    /\ train_len = None /\ test_len = None
    /\ mcmc = None /\ samples = "none" /\ result = "none"
    /\ run = [state |-> "none", built |-> 0, runs |-> 0, steps |-> 0, gets |-> 0]

\* an exception raised outside the `with` statement leaves main at once
Raise(e, line) == pc' = "failed" /\ err' = e /\ errLine' = line

\* an exception raised inside the `with` body first unwinds through both sinks
RaiseInBlock(e, line) == pc' = "exit_model_saver" /\ err' = e /\ errLine' = line

\* ------------------------------------------------ lines 117-143: set-up
Validate ==
    /\ pc = "validate"
    /\ IF FailedAssertion(cfg) # 0
       THEN Raise("AssertionError", FailedAssertion(cfg))
       ELSE pc' = "get_data" /\ UNCHANGED errvars
    /\ UNCHANGED <<cfgvars, batch_size, datavars, modelvars, ckptvars,
                   sinkvars, schedvars, loadvars, runvars>>

GetData ==
    /\ pc = "get_data"
    /\ dataset' = "obtained"
    /\ artifacts' = IF IsSynthetic(cfg.data)
                    THEN artifacts \cup {"synthetic_data.pt", "true_model.pt"}
                    ELSE artifacts
    /\ pc' = "get_model"
    /\ UNCHANGED <<cfgvars, errvars, batch_size, modelvars, ckptvars,
                   sinkvars, schedvars, loadvars, runvars>>

GetModel ==
    /\ pc = "get_model"
    /\ model' = "train"
    /\ pc' = IF cfg.load_samples = None THEN "initialize" ELSE "load_samples"
    /\ UNCHANGED <<cfgvars, errvars, batch_size, datavars, inits, model_store,
                   ckptvars, sinkvars, schedvars, loadvars, runvars>>

\* the dispatch without its final else: an unknown scheme is a no-op
InitializeLenient ==
    /\ pc = "initialize"
    /\ IF cfg.init_method \in {"he", "he_uniform", "he_zerobias"}
       THEN inits' = Append(inits, cfg.init_method)
       ELSE UNCHANGED inits
    /\ pc' = "enter_metrics"
    /\ UNCHANGED <<cfgvars, errvars, batch_size, datavars, model, model_store,
                   ckptvars, sinkvars, schedvars, loadvars, runvars>>

Initialize ==
    /\ pc = "initialize"
    /\ IF cfg.init_method \in {"he", "he_uniform", "he_zerobias"}
       THEN /\ inits' = Append(inits, cfg.init_method)
            /\ pc' = "enter_metrics"
            /\ UNCHANGED errvars
       ELSE IF cfg.init_method = "prior"
       THEN /\ pc' = "enter_metrics"
            /\ UNCHANGED <<inits, errvars>>
       ELSE /\ Raise("ValueError", 143)
            /\ UNCHANGED inits
    /\ UNCHANGED <<cfgvars, batch_size, datavars, model, model_store, ckptvars,
                   sinkvars, schedvars, loadvars, runvars>>

\* ------------------------------------- lines 145-160: resuming from a checkpoint
LoadSamples ==
    /\ pc = "load_samples"
    /\ \/ \E L \in LoadedStores, knd \in {"dict", "OrderedDict"},
             M \in ModelStores :
            /\ state_dict' = Some(L) /\ ckpt' = Some(L) /\ kind' = knd
            /\ model_sd' = Some(M) /\ fresh' = Some(M) /\ model_store' = Some(M)
            /\ pc' = "reconcile"
            /\ UNCHANGED errvars
       \/ /\ Raise("OSError", 145)       \* the file cannot be read
          /\ UNCHANGED <<state_dict, ckpt, kind, model_sd, fresh, model_store>>
    /\ UNCHANGED <<cfgvars, batch_size, datavars, model, inits, log,
                   missing_keys, sinkvars, schedvars, loadvars, runvars>>

Reconcile ==
    /\ pc = "reconcile"
    /\ LET sd  == Val(state_dict)
           msd == Val(model_sd)
           r   == ForKeys(kind, sd, msd, sd.keys, 1, log)
       IN  IF r.raised
           THEN /\ state_dict' = Some(r.state_dict)
                /\ log' = r.log
                /\ Raise("RuntimeError", 147)
                /\ UNCHANGED <<model_sd, missing_keys>>
           ELSE /\ state_dict' = Some(r.state_dict)
                /\ missing_keys' = Some(MissingKeys(msd, r.state_dict))
                /\ log' = Append(r.log, NotFound(MissingKeys(msd, r.state_dict)))
                /\ model_sd' = Some(DictUpdate(msd, r.state_dict))
                /\ pc' = "load_state_dict"
                /\ UNCHANGED errvars
    /\ UNCHANGED <<cfgvars, batch_size, datavars, modelvars, kind, ckpt, fresh,
                   sinkvars, schedvars, loadvars, runvars>>

LoadStateDict ==
    /\ pc = "load_state_dict"
    /\ IF Loadable(Val(model_store), Val(model_sd))
       THEN /\ model_store' = model_sd
            /\ state_dict' = None /\ model_sd' = None
            /\ pc' = "enter_metrics"
            /\ UNCHANGED errvars
       ELSE /\ Raise("RuntimeError", 158)
            /\ UNCHANGED <<model_store, state_dict, model_sd>>
    /\ UNCHANGED <<cfgvars, batch_size, datavars, model, inits, kind, ckpt,
                   fresh, log, missing_keys, sinkvars, schedvars, loadvars,
                   runvars>>

\* ------------------------------------------- lines 162-172: the `with` header
\* the metrics sink constructed but not entered
EnterMetricsNotEntered ==
    /\ pc = "enter_metrics"
    /\ \/ /\ artifacts' = artifacts \cup {"metrics.h5"}
          /\ pc' = "enter_model_saver"
          /\ UNCHANGED <<metrics_saver, errvars>>
       \/ /\ Raise("OSError", 170)
          /\ UNCHANGED <<metrics_saver, artifacts>>
    /\ UNCHANGED <<cfgvars, batch_size, dataset, modelvars, ckptvars,
                   model_saver, schedvars, loadvars, runvars>>

EnterMetrics ==
    /\ pc = "enter_metrics"
    /\ \/ /\ metrics_saver' = Open(metrics_saver)
          /\ artifacts' = artifacts \cup {"metrics.h5"}
          /\ pc' = "enter_model_saver"
          /\ UNCHANGED errvars
       \/ /\ Raise("OSError", 170)       \* the sink cannot be opened
          /\ UNCHANGED <<metrics_saver, artifacts>>
    /\ UNCHANGED <<cfgvars, batch_size, dataset, modelvars, ckptvars,
                   model_saver, schedvars, loadvars, runvars>>

\* the trajectory sink opened under a handler that swallows its failure
EnterModelSaverLenient ==
    /\ pc = "enter_model_saver"
    /\ IF cfg.save_samples
       THEN \/ /\ model_saver' = Open(model_saver)
               /\ artifacts' = artifacts \cup {"samples.pt"}
               /\ pc' = "select"
               /\ UNCHANGED errvars
            \/ /\ pc' = "select"
               /\ err' = "OSError" /\ errLine' = 172
               /\ UNCHANGED <<model_saver, artifacts>>
       ELSE /\ model_saver' = Placeholder
            /\ pc' = "select"
            /\ UNCHANGED <<artifacts, errvars>>
    /\ UNCHANGED <<cfgvars, batch_size, dataset, modelvars, ckptvars,
                   metrics_saver, schedvars, loadvars, runvars>>

\* the trajectory sink opened outside the scope of the metrics sink
EnterModelSaverUnscoped ==
    /\ pc = "enter_model_saver"
    /\ IF cfg.save_samples
       THEN \/ /\ model_saver' = Open(model_saver)
               /\ artifacts' = artifacts \cup {"samples.pt"}
               /\ pc' = "select"
               /\ UNCHANGED errvars
            \/ /\ Raise("OSError", 172)
               /\ UNCHANGED <<model_saver, artifacts>>
       ELSE /\ model_saver' = Placeholder
            /\ pc' = "select"
            /\ UNCHANGED <<artifacts, errvars>>
    /\ UNCHANGED <<cfgvars, batch_size, dataset, modelvars, ckptvars,
                   metrics_saver, schedvars, loadvars, runvars>>

EnterModelSaver ==
    /\ pc = "enter_model_saver"
    /\ IF cfg.save_samples
       THEN \/ /\ model_saver' = Open(model_saver)
               /\ artifacts' = artifacts \cup {"samples.pt"}
               /\ pc' = "select"
               /\ UNCHANGED errvars
            \/ /\ pc' = "exit_metrics"   \* only the metrics sink is entered
               /\ err' = "OSError" /\ errLine' = 172
               /\ UNCHANGED <<model_saver, artifacts>>
       ELSE /\ model_saver' = Placeholder
            /\ pc' = "select"
            /\ UNCHANGED <<artifacts, errvars>>
    /\ UNCHANGED <<cfgvars, batch_size, dataset, modelvars, ckptvars,
                   metrics_saver, schedvars, loadvars, runvars>>

\* --------------------------------------------- lines 173-207: the `with` body
\* the kernel built, but the schedule computed in every mode
SelectThenSchedule ==
    /\ pc = "select"
    /\ IF cfg.inference = "HMC"
       THEN /\ mcmc' = Some([class |-> "MCMC", kernel |-> "HMC",
                             step_size |-> "1e-3", num_steps |-> NumSteps,
                             num_samples |-> cfg.n_samples,
                             warmup_steps |-> cfg.warmup])
            /\ run' = [run EXCEPT !.state = "constructed", !.built = @ + 1]
            /\ pc' = "schedule"
            /\ UNCHANGED runner_class
       ELSE /\ runner_class' = RunnerClass(cfg.inference)
            /\ pc' = "schedule"
            /\ UNCHANGED <<mcmc, run>>
    /\ UNCHANGED <<cfgvars, errvars, batch_size, datavars, modelvars, ckptvars,
                   sinkvars, sample_epochs, epochs_per_cycle, loadvars,
                   samples, result>>

Select ==
    /\ pc = "select"
    /\ IF cfg.inference = "HMC"
       THEN /\ mcmc' = Some([class |-> "MCMC", kernel |-> "HMC",
                             step_size |-> "1e-3", num_steps |-> NumSteps,
                             num_samples |-> cfg.n_samples,
                             warmup_steps |-> cfg.warmup])
            /\ run' = [run EXCEPT !.state = "constructed", !.built = @ + 1]
            /\ pc' = "run"
            /\ UNCHANGED runner_class
       ELSE /\ runner_class' = RunnerClass(cfg.inference)
            /\ pc' = "schedule"
            /\ UNCHANGED <<mcmc, run>>
    /\ UNCHANGED <<cfgvars, errvars, batch_size, datavars, modelvars, ckptvars,
                   sinkvars, sample_epochs, epochs_per_cycle, loadvars,
                   samples, result>>

Schedule ==
    /\ pc = "schedule"
    /\ IF Divisible(cfg.n_samples, cfg.skip, cfg.cycles)
       THEN /\ sample_epochs' =
                  Some(SampleEpochs(cfg.n_samples, cfg.skip, cfg.cycles))
            /\ epochs_per_cycle' =
                  Some(EpochsPerCycle(cfg.warmup, cfg.burnin,
                         SampleEpochs(cfg.n_samples, cfg.skip, cfg.cycles)))
            /\ pc' = "loaders"
            /\ UNCHANGED errvars
       ELSE /\ RaiseInBlock("AssertionError", 192)
            /\ UNCHANGED <<sample_epochs, epochs_per_cycle>>
    /\ UNCHANGED <<cfgvars, batch_size, datavars, modelvars, ckptvars,
                   sinkvars, runner_class, loadvars, runvars>>

Loaders ==
    /\ pc = "loaders"
    /\ IF batch_size = None
       THEN \E n \in 1..MaxData :        \* len(data.norm.train)
              train_len' = Some(n) /\ batch_size' = Some(n)
       ELSE UNCHANGED <<train_len, batch_size>>
    /\ dataloader' = Some([split |-> "train", batch_size |-> Val(batch_size'),
                           shuffle |-> TRUE])
    /\ dataloader_test' = Some([split |-> "test", batch_size |-> Val(batch_size'),
                                shuffle |-> FALSE])
    /\ pc' = "construct"
    /\ UNCHANGED <<cfgvars, errvars, datavars, modelvars, ckptvars, sinkvars,
                   schedvars, test_len, runvars>>

Construct ==
    /\ pc = "construct"
    /\ mcmc' = Some([class |-> runner_class,
                     dataloader |-> Val(dataloader),
                     dataloader_test |-> Val(dataloader_test),
                     epochs_per_cycle |-> Val(epochs_per_cycle),
                     warmup_epochs |-> cfg.warmup,
                     sample_epochs |-> Val(sample_epochs),
                     skip |-> cfg.skip, cycles |-> cfg.cycles,
                     metrics_saver |-> "metrics_saver",
                     model_saver |-> IF model_saver.state = "placeholder"
                                     THEN "None" ELSE "model_saver"])
    /\ run' = [run EXCEPT !.state = "constructed", !.built = @ + 1]
    /\ pc' = "run"
    /\ UNCHANGED <<cfgvars, errvars, batch_size, datavars, modelvars, ckptvars,
                   sinkvars, schedvars, loadvars, samples, result>>

\* mcmc.run(progressbar=progressbar) is entered
RunStart ==
    /\ pc = "run"
    /\ run' = [run EXCEPT !.state = "running", !.runs = @ + 1]
    /\ pc' = "running"
    /\ UNCHANGED <<cfgvars, errvars, batch_size, datavars, modelvars, ckptvars,
                   sinkvars, schedvars, loadvars, mcmc, samples, result>>

\* one recorded step of the run; a runner writes to the sinks it was given
RunStep ==
    /\ pc = "running"
    /\ run.steps < MaxWrites
    /\ run' = [run EXCEPT !.steps = @ + 1]
    /\ IF Val(mcmc).class = "MCMC"
       THEN UNCHANGED sinkvars
       ELSE /\ metrics_saver' = WriteTo(metrics_saver)
            /\ model_saver' = WriteTo(model_saver)
    /\ UNCHANGED <<cfgvars, pc, errvars, batch_size, datavars, modelvars,
                   ckptvars, schedvars, loadvars, mcmc, samples, result>>

\* run() returns and the statements after it are still in the `with` body
RunReturnInsideBlock ==
    /\ pc = "running"
    /\ run' = [run EXCEPT !.state = "returned"]
    /\ pc' = "get_samples"
    /\ UNCHANGED <<cfgvars, errvars, batch_size, datavars, modelvars, ckptvars,
                   sinkvars, schedvars, loadvars, mcmc, samples, result>>

\* run() returns
RunReturn ==
    /\ pc = "running"
    /\ run' = [run EXCEPT !.state = "returned"]
    /\ pc' = "exit_model_saver"
    /\ UNCHANGED <<cfgvars, errvars, batch_size, datavars, modelvars, ckptvars,
                   sinkvars, schedvars, loadvars, mcmc, samples, result>>

\* run() called under a handler that swallows its exception
RunRaiseSwallowed ==
    /\ pc = "running"
    /\ run' = [run EXCEPT !.state = "raised"]
    /\ pc' = "exit_model_saver"
    /\ UNCHANGED <<cfgvars, errvars, batch_size, datavars, modelvars, ckptvars,
                   sinkvars, schedvars, loadvars, mcmc, samples, result>>

\* run() raises
RunRaise ==
    /\ pc = "running"
    /\ run' = [run EXCEPT !.state = "raised"]
    /\ RaiseInBlock("RunnerFailure", 207)
    /\ UNCHANGED <<cfgvars, batch_size, datavars, modelvars, ckptvars,
                   sinkvars, schedvars, loadvars, mcmc, samples, result>>

\* ----------------------------------------------- leaving the `with` statement
ExitModelSaver ==
    /\ pc = "exit_model_saver"
    /\ model_saver' = IF model_saver.state = "placeholder"
                      THEN model_saver ELSE Close(model_saver)
    /\ pc' = "exit_metrics"
    /\ UNCHANGED <<cfgvars, errvars, batch_size, datavars, modelvars, ckptvars,
                   metrics_saver, schedvars, loadvars, runvars>>

\* the metrics sink closed by a statement after the body, not by the `with`
ExitMetricsOnSuccess ==
    /\ pc = "exit_metrics"
    /\ metrics_saver' = IF err = "none" THEN Close(metrics_saver)
                        ELSE metrics_saver
    /\ pc' = IF err = "none" THEN "get_samples" ELSE "failed"
    /\ UNCHANGED <<cfgvars, errvars, batch_size, datavars, modelvars, ckptvars,
                   model_saver, schedvars, loadvars, runvars>>

\* a metrics sink whose __exit__ suppresses the exception in flight
ExitMetricsSuppress ==
    /\ pc = "exit_metrics"
    /\ metrics_saver' = Close(metrics_saver)
    /\ pc' = "get_samples"
    /\ UNCHANGED <<cfgvars, errvars, batch_size, datavars, modelvars, ckptvars,
                   model_saver, schedvars, loadvars, runvars>>

ExitMetrics ==
    /\ pc = "exit_metrics"
    /\ metrics_saver' = Close(metrics_saver)
    /\ pc' = IF err = "none" THEN "get_samples" ELSE "failed"
    /\ UNCHANGED <<cfgvars, errvars, batch_size, datavars, modelvars, ckptvars,
                   model_saver, schedvars, loadvars, runvars>>

\* ------------------------------------------------ lines 208-214: evaluation
GetSamples ==
    /\ pc = "get_samples"
    /\ samples' = "samples"
    /\ run' = [run EXCEPT !.gets = @ + 1]
    /\ pc' = "model_eval"
    /\ UNCHANGED <<cfgvars, errvars, batch_size, datavars, modelvars, ckptvars,
                   sinkvars, schedvars, loadvars, mcmc, result>>

ModelEval ==
    /\ pc = "model_eval"
    /\ model' = "eval"
    /\ pc' = "clamp"
    /\ UNCHANGED <<cfgvars, errvars, batch_size, datavars, inits, model_store,
                   ckptvars, sinkvars, schedvars, loadvars, runvars>>

\* batch_size = min(batch_size, len(data.norm.test)) and the test loader
Clamp ==
    /\ pc = "clamp"
    /\ \E m \in 1..MaxData :             \* len(data.norm.test)
         /\ test_len' = Some(m)
         /\ IF batch_size = None
            THEN /\ Raise("TypeError", 211)      \* min(None, int)
                 /\ UNCHANGED <<batch_size, dataloader_test>>
            ELSE /\ batch_size' = Some(Min(Val(batch_size), m))
                 /\ dataloader_test' =
                       Some([split |-> "test", batch_size |-> Min(Val(batch_size), m),
                             shuffle |-> FALSE])
                 /\ pc' = "evaluate"
                 /\ UNCHANGED errvars
    /\ UNCHANGED <<cfgvars, datavars, modelvars, ckptvars, sinkvars, schedvars,
                   dataloader, train_len, runvars>>

Evaluate ==
    /\ pc = "evaluate"
    /\ result' = "metrics"
    /\ pc' = "done"
    /\ UNCHANGED <<cfgvars, errvars, batch_size, datavars, modelvars, ckptvars,
                   sinkvars, schedvars, loadvars, mcmc, run, samples>>

Next ==
    \/ Validate \/ GetData \/ GetModel \/ Initialize
    \/ LoadSamples \/ Reconcile \/ LoadStateDict
    \/ EnterMetrics \/ EnterModelSaver
    \/ Select \/ Schedule \/ Loaders \/ Construct
    \/ RunStart \/ RunStep \/ RunReturn \/ RunRaise
    \/ ExitModelSaver \/ ExitMetrics
    \/ GetSamples \/ ModelEval \/ Clamp \/ Evaluate

Spec == Init /\ [][Next]_vars

TypeOK ==
    /\ cfg \in Configs
    /\ pc \in {"validate", "get_data", "get_model", "initialize", "load_samples",
               "reconcile", "load_state_dict", "enter_metrics",
               "enter_model_saver", "select", "schedule", "loaders",
               "construct", "run", "running", "exit_model_saver",
               "exit_metrics", "get_samples", "model_eval", "clamp",
               "evaluate", "done", "failed"}
    /\ Len(batch_size) <= 1

\* ------------------------------------------------------------------ claims

\* C1: every configuration error (a failed assertion of lines 117-121 or 192,
\* the ValueError of line 143) is raised before any sink has been opened.
C1_ConfigErrorBeforeSinks ==
    (\/ err = "AssertionError" /\ errLine \in {117, 118, 119, 120, 121, 192}
     \/ err = "ValueError" /\ errLine = 143)
    => /\ metrics_saver.opens = 0 /\ metrics_saver.state # "open"
       /\ model_saver.opens = 0 /\ model_saver.state # "open"

\* C2: once the schedule computation has run on (n_samples, skip, cycles) with
\* (n_samples * skip) % cycles # 0, it has failed and nothing further exists:
\* no sample_epochs, no epochs_per_cycle, no data loader, no runner, no run,
\* no samples and no evaluation.
C2_NonDivisibleFails ==
    (/\ runner_class # "none" /\ pc # "schedule"
     /\ (cfg.n_samples * cfg.skip) % cfg.cycles # 0)
    => /\ err = "AssertionError" /\ errLine = 192
       /\ pc \in {"exit_model_saver", "exit_metrics", "failed"}
       /\ sample_epochs = None /\ epochs_per_cycle = None
       /\ dataloader = None /\ dataloader_test = None
       /\ mcmc = None /\ run.built = 0 /\ run.runs = 0
       /\ samples = "none" /\ result = "none"

C2_Witness ==
    /\ pc = "failed" /\ errLine = 192
    /\ cfg.n_samples = 1 /\ cfg.skip = 1 /\ cfg.cycles = 2

\* C3: for valid schedule inputs the schedule is exact,
\* sample_epochs * cycles = n_samples * skip and
\* epochs_per_cycle = warmup + burnin + sample_epochs, and these are the
\* values the runner is constructed with.
C3_ScheduleExact ==
    /\ sample_epochs # None =>
          /\ epochs_per_cycle # None
          /\ Val(sample_epochs) * cfg.cycles = cfg.n_samples * cfg.skip
          /\ Val(epochs_per_cycle) =
                cfg.warmup + cfg.burnin + Val(sample_epochs)
    /\ (mcmc # None /\ cfg.inference # "HMC") =>
          /\ Val(mcmc).sample_epochs * cfg.cycles = cfg.n_samples * cfg.skip
          /\ Val(mcmc).epochs_per_cycle =
                cfg.warmup + cfg.burnin + Val(mcmc).sample_epochs
          /\ Val(mcmc).sample_epochs = Val(sample_epochs)
          /\ Val(mcmc).epochs_per_cycle = Val(epochs_per_cycle)

C3_Witness ==
    /\ mcmc # None /\ cfg.inference # "HMC"
    /\ cfg.n_samples = 1 /\ cfg.skip = 2 /\ cfg.cycles = 2
    /\ cfg.warmup = 1 /\ cfg.burnin = 1
    /\ Val(mcmc).sample_epochs = 1 /\ Val(mcmc).epochs_per_cycle = 3

\* C4: once a readable checkpoint has been loaded, reconciliation completes
\* without raising whatever the mismatches, and the merged store is installed.
C4_ReconcileNeverRaises ==
    (ckpt # None /\ pc \notin {"reconcile", "load_state_dict"})
    => (state_dict = None /\ err # "RuntimeError")

\* C5: for every key k of the loaded store that the model store lacks, once
\* reconciliation is over the store installed into the model is without k and
\* a warning naming k has been recorded.
C5_UnknownKeyDropped ==
    \A k \in Keys :
        (/\ ckpt # None /\ pc \notin {"reconcile", "load_state_dict"}
         /\ Has(Val(ckpt), k) /\ ~Has(Val(fresh), k))
        => /\ state_dict = None
           /\ ~Has(Val(model_store), k)
           /\ NotInModel(k) \in Range(log)

\* C6: in the store installed into the model, a key of both stores holds the
\* model's original value when the sizes differ, with a warning giving both
\* sizes, and the loaded value when the sizes agree.
C6_MismatchKeepsModelValue ==
    (ckpt # None /\ state_dict = None) =>
        \A k \in KeySet(Val(ckpt)) \cap KeySet(Val(fresh)) :
            LET m == Val(fresh).val[k]
                l == Val(ckpt).val[k]
            IN  /\ Has(Val(model_store), k)
                /\ IF m.size # l.size
                   THEN /\ Val(model_store).val[k] = m
                        /\ SizeMismatch(k, m.size, l.size) \in Range(log)
                   ELSE Val(model_store).val[k] = l

C6_Witness ==
    /\ ckpt # None /\ state_dict = None
    /\ \E j, k \in KeySet(Val(ckpt)) \cap KeySet(Val(fresh)) :
         /\ Val(fresh).val[j].size # Val(ckpt).val[j].size
         /\ Val(fresh).val[k].size = Val(ckpt).val[k].size
         /\ Val(model_store).val[j].origin = "model"
         /\ Val(model_store).val[k].origin = "ckpt"

\* C7: reconciliation is idempotent: reconciling the installed store R, as the
\* loaded store, into a model whose store is R completes, warns about no key,
\* reports no key missing and yields R.
C7_ReconcileIdempotent ==
    (ckpt # None /\ state_dict = None) =>
        \A knd \in {"dict", "OrderedDict"} :
            LET R == Val(model_store)
                r == ForKeys(knd, R, R, R.keys, 1, <<>>)
            IN  /\ ~r.raised
                /\ r.log = <<>>
                /\ MissingKeys(R, r.state_dict) = {}
                /\ DictUpdate(R, r.state_dict) = R
                /\ Loadable(R, DictUpdate(R, r.state_dict))

C7_Witness ==
    /\ ckpt # None /\ state_dict = None
    /\ Val(model_store) # Val(fresh)
    /\ Val(model_store) # Val(ckpt)
    /\ Len(Val(model_store).keys) = MaxKeys

\* C8: on every way out of the `with` statement each sink that was opened has
\* been closed exactly once, no sink is ever closed more often than opened or
\* opened twice, and once an exception is in flight no sink is written to.
C8_SinksClosedOnce ==
    [][ /\ (pc' \in {"get_samples", "model_eval", "clamp", "evaluate", "done",
                     "failed"})
            => /\ metrics_saver'.closes = metrics_saver'.opens
               /\ metrics_saver'.state # "open"
               /\ model_saver'.closes = model_saver'.opens
               /\ model_saver'.state # "open"
        /\ metrics_saver'.closes <= metrics_saver'.opens
        /\ metrics_saver'.opens <= 1
        /\ model_saver'.closes <= model_saver'.opens
        /\ model_saver'.opens <= 1
        /\ err # "none" => /\ metrics_saver'.writes = metrics_saver.writes
                           /\ model_saver'.writes = model_saver.writes ]_vars

C8_Witness ==
    /\ pc = "failed" /\ err = "RunnerFailure"
    /\ run.steps = 1 /\ run.steps < MaxWrites
    /\ metrics_saver.writes = 1 /\ model_saver.writes = 1
    /\ metrics_saver.opens = 1 /\ metrics_saver.closes = 1
    /\ model_saver.opens = 1 /\ model_saver.closes = 1

\* C9: run() is active only while the sinks are open: they were opened before
\* it started, they are closed only after it has returned or raised, and
\* run() is started at most once.
C9_RunInsideSinks ==
    /\ run.state = "running" =>
          /\ metrics_saver.state = "open"
          /\ cfg.save_samples => model_saver.state = "open"
    /\ run.runs > 0 =>
          /\ metrics_saver.opens = 1
          /\ cfg.save_samples => model_saver.opens = 1
    /\ (run.runs > 0 /\ (metrics_saver.closes > 0 \/ model_saver.closes > 0))
          => run.state \in {"returned", "raised"}
    /\ run.runs <= 1

C9_Witness ==
    /\ run.state = "running" /\ run.steps > 0 /\ cfg.save_samples
    /\ metrics_saver.state = "open" /\ model_saver.state = "open"

\* C10: when a sink cannot be acquired the failure leaves main with no data
\* loader, runner or kernel constructed and run() not invoked; a run starts
\* only with the metrics sink opened and the trajectory sink (or its
\* placeholder) in place.
C10_AcquisitionFailureBeforeRunner ==
    /\ (err = "OSError" /\ errLine \in {170, 172}) =>
          /\ pc \in {"exit_metrics", "failed"}
          /\ runner_class = "none" /\ mcmc = None
          /\ run.built = 0 /\ run.runs = 0
          /\ dataloader = None /\ dataloader_test = None
    /\ run.built > 0 =>
          /\ metrics_saver.opens = 1
          /\ model_saver.state # "unopened"

C10_Witness ==
    /\ pc = "failed" /\ err = "OSError" /\ errLine = 172
    /\ metrics_saver.opens = 1 /\ metrics_saver.closes = 1
    /\ model_saver.opens = 0


\* C11: when run() raises, the error leaves main and no partial result
\* exists: get_samples() is not called, the model stays in training mode,
\* the evaluation is not invoked and nothing is returned.
C11_RunnerFailureNoResult ==
    run.state = "raised" =>
        /\ err = "RunnerFailure" /\ errLine = 207
        /\ pc \in {"exit_model_saver", "exit_metrics", "failed"}
        /\ run.gets = 0 /\ samples = "none"
        /\ model = "train"
        /\ test_len = None
        /\ result = "none"

C11_Witness ==
    /\ pc = "failed" /\ run.state = "raised" /\ run.steps > 0
    /\ err = "RunnerFailure" /\ result = "none"

\* C12: in every inference mode and for every batch_size setting, a run whose
\* sampling has completed reaches the evaluation with a test loader of batch
\* size min(b, test-set size), b being the configured batch size or, when
\* unset, the training-set size; the training loader's batch size is b.
C12_EvalBatchClamped ==
    (run.state = "returned" /\ test_len # None) =>
        /\ pc \in {"evaluate", "done"}
        /\ err = "none"
        /\ dataloader # None
        /\ dataloader_test # None
        /\ LET b == IF cfg.batch_size # None THEN Val(cfg.batch_size)
                    ELSE Val(train_len)
           IN  /\ Val(dataloader).batch_size = b
               /\ Val(dataloader_test).batch_size = Min(b, Val(test_len))


\* C13: in mode "HMC" the schedule computation is bypassed whatever skip and
\* cycles are: the divisibility assertion is not evaluated, no sample_epochs
\* or epochs_per_cycle is computed, no runner class is selected, no data
\* loader is built for the run (the test loader of line 212 is built only
\* for the evaluation), and the one kernel has step_size 1e-3, num_steps 32.
C13_HMCBypassesSchedule ==
    cfg.inference = "HMC" =>
        /\ ~(err = "AssertionError" /\ errLine = 192)
        /\ sample_epochs = None /\ epochs_per_cycle = None
        /\ runner_class = "none"
        /\ dataloader = None /\ train_len = None
        /\ pc \notin {"evaluate", "done"} => dataloader_test = None
        /\ run.built <= 1
        /\ pc \in {"run", "running"} => run.built = 1
        /\ run.built = 1 =>
              /\ mcmc # None
              /\ Val(mcmc).class = "MCMC" /\ Val(mcmc).kernel = "HMC"
              /\ Val(mcmc).step_size = "1e-3" /\ Val(mcmc).num_steps = 32

C13_Witness ==
    /\ cfg.inference = "HMC"
    /\ run.state = "returned" /\ run.built = 1 /\ pc = "done"
    /\ (cfg.n_samples * cfg.skip) % cfg.cycles # 0

\* C14: a run whose configuration violates a RunConfig invariant (mode,
\* width, sample count, cycle count, temperature, divisibility) fails before
\* the data set is obtained, an artifact is persisted, a model is built or
\* the runner selection is reached.
C14_InvalidConfigTouchesNothing ==
    (\/ cfg.inference \notin InferenceModes
     \/ cfg.width <= 0 \/ cfg.n_samples <= 0 \/ cfg.cycles <= 0
     \/ cfg.temperature < 0
     \/ (cfg.n_samples * cfg.skip) % cfg.cycles # 0)
    => /\ dataset = "none" /\ artifacts = {}
       /\ model = "none"
       /\ runner_class = "none" /\ mcmc = None


\* C15: whenever reconciliation completes, the installed store has exactly
\* the keys of the fresh model store M, every key of M that the loaded store
\* L lacks keeps M's value, and the set in the missing-keys warning is
\* keys(M) minus keys(L).
C15_InstalledKeysAreModelKeys ==
    (ckpt # None /\ state_dict = None) =>
        LET missing == KeySet(Val(fresh)) \ KeySet(Val(ckpt)) IN
        /\ KeySet(Val(model_store)) = KeySet(Val(fresh))
        /\ Val(model_store).keys = Val(fresh).keys
        /\ \A k \in missing : Val(model_store).val[k] = Val(fresh).val[k]
        /\ missing_keys = Some(missing)
        /\ log[Len(log)] = NotFound(missing)

C15_Witness ==
    /\ ckpt # None /\ state_dict = None
    /\ Val(missing_keys) # {}
    /\ KeySet(Val(ckpt)) \cap KeySet(Val(fresh)) # {}

\* C16 as claimed: a run whose init_method is not one of the four schemes
\* never reaches the sampling stage, with or without a checkpoint path.
C16_UnknownSchemeAlwaysFatal ==
    cfg.init_method \notin {"he", "he_uniform", "he_zerobias", "prior"} =>
        /\ pc \in {"validate", "get_data", "get_model", "initialize",
                   "load_samples", "reconcile", "load_state_dict", "failed"}
        /\ metrics_saver.opens = 0 /\ run.runs = 0

\* C16 as amended: without a checkpoint path an unknown scheme ends the run
\* with the ValueError of line 143 before the sampling stage, and a known one
\* is applied exactly once (none for "prior"); with a checkpoint path
\* init_method is not examined and no scheme is applied.
C16_SchemeCheckedWithoutCheckpoint ==
    /\ cfg.load_samples # None => inits = <<>>
    /\ (/\ cfg.load_samples = None
        /\ cfg.init_method \notin {"he", "he_uniform", "he_zerobias", "prior"})
       => /\ pc \in {"validate", "get_data", "get_model", "initialize", "failed"}
          /\ inits = <<>>
          /\ metrics_saver.opens = 0 /\ run.runs = 0
          /\ pc = "failed" => (errLine = 143 /\ err = "ValueError")
    /\ (/\ cfg.load_samples = None
        /\ pc \notin {"validate", "get_data", "get_model", "initialize"}
        /\ errLine \notin {117, 118, 119, 120, 121, 143})
       => inits = IF cfg.init_method = "prior" THEN <<>>
                  ELSE <<cfg.init_method>>
    /\ ~(cfg.load_samples # None /\ errLine = 143)

C16_Witness ==
    /\ cfg.init_method = "glorot" /\ cfg.load_samples # None
    /\ run.state = "running" /\ inits = <<>>


\* C17: at most one runner (or kernel with its MCMC object) is constructed,
\* run() is invoked on it at most once, get_samples() at most once and only
\* after run() has returned normally, and after get_samples() the runner is
\* not used again.
C17_RunnerLifecycle ==
    [][ /\ run'.built <= 1 /\ run'.runs <= 1 /\ run'.gets <= 1
        /\ run'.runs > 0 => (run'.built = 1 /\ mcmc' # None)
        /\ run'.gets > 0 => (run'.runs = 1 /\ run'.state = "returned")
        /\ run.gets > 0 => (run' = run /\ mcmc' = mcmc) ]_vars

C17_Witness ==
    /\ pc = "done"
    /\ run = [state |-> "returned", built |-> 1, runs |-> 1,
              steps |-> MaxWrites, gets |-> 1]
    /\ samples = "samples"

\* C18: when the metrics sink has been opened and the trajectory sink then
\* cannot be acquired, the metrics sink has been closed exactly once when
\* the failure leaves main; no execution ends with a sink open.
C18_MetricsClosedWhenSaverFails ==
    /\ (pc = "failed" /\ err = "OSError" /\ errLine = 172) =>
          /\ metrics_saver = [state |-> "closed", opens |-> 1, closes |-> 1,
                              writes |-> 0]
          /\ model_saver.state = "unopened" /\ model_saver.closes = 0
    /\ pc \in {"done", "failed"} =>
          /\ metrics_saver.state # "open" /\ model_saver.state # "open"
          /\ metrics_saver.closes = metrics_saver.opens
          /\ model_saver.closes = model_saver.opens

C18_Witness ==
    /\ pc = "failed" /\ errLine = 172 /\ cfg.save_samples
    /\ "metrics.h5" \in artifacts /\ "samples.pt" \notin artifacts
    /\ metrics_saver.state = "closed" /\ model_saver.state = "unopened"

\* C19: samples are retrieved, the model is put in evaluation mode and the
\* evaluation is invoked only after both sinks have been closed: no sink is
\* open in any of these steps.
C19_EvaluationAfterSinksClosed ==
    (\/ pc \in {"get_samples", "model_eval", "clamp", "evaluate", "done"}
     \/ run.gets > 0 \/ samples # "none" \/ model = "eval"
     \/ result # "none")
    => /\ metrics_saver.state = "closed" /\ metrics_saver.closes = 1
       /\ model_saver.state \in {"closed", "placeholder"}
       /\ cfg.save_samples => (model_saver.state = "closed"
                               /\ model_saver.closes = 1)
       /\ run.state = "returned"

C19_Witness ==
    /\ pc = "done" /\ result = "metrics" /\ model = "eval"
    /\ cfg.save_samples /\ metrics_saver.writes > 0
    /\ metrics_saver.state = "closed" /\ model_saver.state = "closed"

====
